---- MODULE Spec2Model ----
(***************************************************************************)
(* A model of plex-media-tagger (src/run_taggers.py, src/rm_standup.py):   *)
(* the orchestrated tagger passes over a Plex movie library, the Trakt     *)
(* reference list with its on-disk cache, the keyword pre-filter, the AI   *)
(* classifier adapter and the reset of all managed labels.                 *)
(*                                                                         *)
(* Python strings are sequences of one-character strings, so that          *)
(* str.lower(), the substring test `a in b` and str(int) are computed and  *)
(* not assumed.  None and the empty string are both written <<>> where the *)
(* code only tests truthiness (`x or ""`, `if imdb_id:`); a missing or     *)
(* zero tmdbId is 0.                                                       *)
(***************************************************************************)
EXTENDS Integers, Sequences, FiniteSets, TLC

(***************************************************************************)
(* Strings                                                                 *)
(***************************************************************************)
UpperChars == <<"A","B","C","D","E","F","G","H","I","J","K","L","M",
                "N","O","P","Q","R","S","T","U","V","W","X","Y","Z">>

LowerChars == <<"a","b","c","d","e","f","g","h","i","j","k","l","m",
                "n","o","p","q","r","s","t","u","v","w","x","y","z">>

LowerChar(c) ==
    IF \E i \in DOMAIN UpperChars : UpperChars[i] = c
    THEN LowerChars[CHOOSE i \in DOMAIN UpperChars : UpperChars[i] = c]
    ELSE c

\* str.lower()
lower(s) == [i \in 1..Len(s) |-> LowerChar(s[i])]

\* Python's `sub in s` on strings
Contains(sub, s) ==
    \E i \in 0..(Len(s) - Len(sub)) : SubSeq(s, i + 1, i + Len(sub)) = sub

\* str.strip(): leading and trailing blanks and newlines removed
Blank == {" ", "\n"}

RECURSIVE lstrip(_)
lstrip(s) == IF s # <<>> /\ Head(s) \in Blank THEN lstrip(Tail(s)) ELSE s

RECURSIVE rstrip(_)
rstrip(s) ==
    IF s # <<>> /\ s[Len(s)] \in Blank THEN rstrip(SubSeq(s, 1, Len(s) - 1)) ELSE s

strip(s) == rstrip(lstrip(s))

Digits == <<"0","1","2","3","4","5","6","7","8","9">>

\* str(n) for n >= 0
RECURSIVE str(_)
str(n) ==
    IF n < 10 THEN <<Digits[n + 1]>>
    ELSE str(n \div 10) \o <<Digits[(n % 10) + 1]>>

\* dict.get(key, default)
Get(d, key, default) == IF key \in DOMAIN d THEN d[key] ELSE default

(***************************************************************************)
(* The label store (plexapi): labels keep the spelling they were written   *)
(* with and are matched ignoring case.                                     *)
(***************************************************************************)
addLabel(labelSet, name) ==
    IF \E l \in labelSet : lower(l) = lower(name)
    THEN labelSet
    ELSE labelSet \cup {name}

removeLabel(labelSet, name) == {l \in labelSet : lower(l) # lower(name)}

(***************************************************************************)
(* Label spellings and texts used by the configurations and the library    *)
(***************************************************************************)
standup              == <<"s","t">>
Standup              == <<"S","t">>
verified_not_standup == <<"n","o">>
sappy                == <<"x","m">>
not_sappy            == <<"n","x">>
unmanaged            == <<"H","D">>

kw_snow == <<"S","n","o","w">>
kw_xmas == <<"x","m","a","s">>
kw_gala == <<"g","a","l","a">>

\* A prompt template is its sequence of pieces: literal text and the
\* replacement fields str.format() meets.
GoodPrompt == <<"text", "{title}", "text", "{summary}">>
BadPrompt  == <<"text", "{title}", "{genre}">>

(***************************************************************************)
(* config.json documents and the environment (lines 11-37).  Each          *)
(* deployment is one environment the program can be started in.            *)
(***************************************************************************)
StandupPlain ==
    [add_label |-> standup, reject_label |-> verified_not_standup,
     genres |-> <<"Comedy">>, prompt |-> GoodPrompt]

StandupCapital ==
    [add_label |-> Standup, reject_label |-> verified_not_standup,
     genres |-> <<"Comedy">>, prompt |-> GoodPrompt,
     pre_ai_keywords |-> <<kw_gala>>, pre_ai_keyword_threshold |-> 1]

StandupBadPrompt ==
    [add_label |-> standup, reject_label |-> verified_not_standup,
     genres |-> <<"Comedy">>, prompt |-> BadPrompt]

SappyOne ==
    [add_label |-> sappy, reject_label |-> not_sappy, genres |-> <<>>,
     prompt |-> GoodPrompt, pre_ai_keywords |-> <<kw_snow, kw_xmas>>]

SappyTwo ==
    [add_label |-> sappy, reject_label |-> not_sappy,
     genres |-> <<"Romance", "Comedy">>, prompt |-> GoodPrompt,
     pre_ai_keywords |-> <<kw_snow, kw_xmas>>, pre_ai_keyword_threshold |-> 2]

SappyNoKeywords ==
    [add_label |-> sappy, reject_label |-> not_sappy, prompt |-> GoodPrompt]

Deployments ==
    { [PLEX_URL |-> TRUE, PLEX_TOKEN |-> TRUE,
       names |-> <<"standup", "sappy_christmas">>,
       TAGGER_CONFIGS |-> [standup |-> StandupPlain, sappy_christmas |-> SappyOne],
       TRAKT_API_CONFIG |-> [client_id |-> TRUE]],
      [PLEX_URL |-> TRUE, PLEX_TOKEN |-> TRUE,
       names |-> <<"sappy_christmas", "standup">>,
       TAGGER_CONFIGS |-> [standup |-> StandupCapital, sappy_christmas |-> SappyTwo],
       TRAKT_API_CONFIG |-> [client_id |-> TRUE, cache_lifetime_hours |-> 1]],
      [PLEX_URL |-> TRUE, PLEX_TOKEN |-> TRUE,
       names |-> <<"standup", "sappy_christmas">>,
       TAGGER_CONFIGS |-> [standup |-> StandupBadPrompt,
                           sappy_christmas |-> SappyNoKeywords],
       TRAKT_API_CONFIG |-> [cache_lifetime_hours |-> 1]],
      [PLEX_URL |-> TRUE, PLEX_TOKEN |-> FALSE,
       names |-> <<"standup", "sappy_christmas">>,
       TAGGER_CONFIGS |-> [standup |-> StandupPlain, sappy_christmas |-> SappyOne],
       TRAKT_API_CONFIG |-> [client_id |-> TRUE]] }

(***************************************************************************)
(* The Plex library section 'Movies' (line 14): what the label store       *)
(* returns for each movie besides its labels.                              *)
(***************************************************************************)
Movies == {"m1", "m2"}

MovieOrder == <<"m1", "m2">>

LIBRARY ==
    [m1 |-> [title |-> <<"G","i","g">>, summary |-> <<"l","i","v","e">>,
             genres |-> {"Comedy"}, imdbID |-> <<"t","t","1">>, tmdbId |-> 0],
     m2 |-> [title |-> <<"S","n","o","w">>, summary |-> <<>>,
             genres |-> {"Romance"}, imdbID |-> <<>>, tmdbId |-> 12]]

\* The label sets a movie may carry when the program starts.
InitialLabels ==
    { {}, {standup}, {Standup}, {verified_not_standup},
      {standup, verified_not_standup}, {Standup, verified_not_standup},
      {sappy, unmanaged}, {not_sappy}, {sappy, not_sappy} }

(***************************************************************************)
(* What the Trakt endpoint and the Ollama endpoint may answer              *)
(***************************************************************************)
TraktItems ==
    << [movie |-> [ids |-> [imdb |-> <<"t","t","9">>, tmdb |-> 12],
                   title |-> <<"E","l","f">>]],
       [show |-> [title |-> <<"G","i","g">>]],
       [movie |-> [ids |-> [imdb |-> <<>>], title |-> <<"S","N","O","W">>]] >>

TraktResponses ==
    { [kind |-> "ok", items |-> TraktItems],
      [kind |-> "ok", items |-> <<>>],
      [kind |-> "http", status_code |-> 429, headers |-> [other |-> <<>>]],
      [kind |-> "http", status_code |-> 429,
       headers |-> [RetryAfter |-> <<"2">>]],
      [kind |-> "http", status_code |-> 429,
       headers |-> [RetryAfter |-> <<"W","e","d">>]],
      [kind |-> "http", status_code |-> 500, headers |-> [other |-> <<>>]],
      [kind |-> "network"] }

AiResponses ==
    { [kind |-> "transport"],
      [kind |-> "not_json"],
      [kind |-> "json", body |-> [model |-> <<>>]],
      [kind |-> "json", body |-> [response |-> <<"T","r","u","e">>]],
      [kind |-> "json", body |-> [response |-> <<" ","t","r","u","e","\n">>]],
      [kind |-> "json", body |-> [response |-> <<"F","a","l","s","e">>]],
      [kind |-> "json", body |-> [response |-> <<"N","o">>]] }

(***************************************************************************)
(* Bounds of the model                                                     *)
(***************************************************************************)
\* The clock (hours) stops advancing at MaxNow.
MaxNow == 1

\* Hours that may pass between two runs of the scheduler.
Elapsed == {0, 1}

(***************************************************************************)
(* Program constants                                                       *)
(***************************************************************************)
DefaultCacheLifetimeHours == 24
DefaultKeywordThreshold   == 1
DefaultRetryAfter         == 5
FixedBackoff              == 5
retries                   == 3

VARIABLES
    dep,        \* environment and config.json the process was started with
    labels,     \* the label store: movie -> set of label strings
    cache,      \* trakt_cache.json
    now,        \* the clock, in hours
    pc,         \* idle | orchestrate | fetch | connect | loop | classify |
                \*   reset | reset_done | crashed
    tagIdx,     \* position of orchestrate_scans in TAGGER_CONFIGS
    movies,     \* run_scanner's list of movie objects (labels as fetched)
    movIdx,     \* position of run_scanner's loop in movies
    trakt_movie_identifiers,
    counters,   \* processed_movies, tagged_movies, rejected_movies
    aiCalls,    \* requests posted to the classifier in this pass, per movie
    printed,    \* the summaries printed in this orchestrated scan
    started,    \* the taggers whose pass was started in this orchestrated scan
    fetch,      \* fetch_trakt_list_movies: loop index, requests, sleeps
    ev          \* the last step taken, with the store as it was before it

vars == <<dep, labels, cache, now, pc, tagIdx, movies, movIdx,
          trakt_movie_identifiers, counters, aiCalls, printed, started, fetch, ev>>

TAGGER_CONFIGS == dep.TAGGER_CONFIGS

TRAKT_API_CONFIG == dep.TRAKT_API_CONFIG

ZeroCounters == [processed |-> 0, tagged |-> 0, rejected |-> 0]

NoCalls == [m \in Movies |-> 0]

NoFetch == [i |-> 0, requests |-> 0, sleeps |-> 0]

Event(kind, tagger, movie, ai) ==
    [kind |-> kind, tagger |-> tagger, movie |-> movie, ai |-> ai,
     lib |-> labels, counters |-> counters]

\* No step of a running operation to remember.
Idle ==
    [kind |-> "idle", tagger |-> "none", movie |-> "none", ai |-> "none",
     lib |-> [m \in Movies |-> {}], counters |-> ZeroCounters]

NoCache == [state |-> "absent", timestamp |-> 0, identifiers |-> {}]

Init ==
    /\ dep \in Deployments
    /\ labels \in [Movies -> InitialLabels]
    /\ cache = NoCache
    /\ now = 0
    /\ pc = "idle"
    /\ tagIdx = 0
    /\ movies = <<>>
    /\ movIdx = 0
    /\ trakt_movie_identifiers = {}
    /\ counters = ZeroCounters
    /\ aiCalls = NoCalls
    /\ printed = <<>>
    /\ started = <<>>
    /\ fetch = NoFetch
    /\ ev = Idle

(***************************************************************************)
(* The same program started next to a trakt_cache.json left by an earlier  *)
(* run or damaged since: a library without managed labels, one tagger,     *)
(* and every shape of cache file that load_trakt_cache tells apart.        *)
(***************************************************************************)
CachedIdentifiers == {<<"t","t","1">>}

CacheFiles ==
    { NoCache,
      [state |-> "ok", timestamp |-> 0, identifiers |-> CachedIdentifiers],
      [state |-> "ok", timestamp |-> -23, identifiers |-> CachedIdentifiers],
      [state |-> "not_json", timestamp |-> 0, identifiers |-> {}],
      [state |-> "no_timestamp", timestamp |-> 0, identifiers |-> CachedIdentifiers],
      [state |-> "bad_timestamp", timestamp |-> 0, identifiers |-> CachedIdentifiers],
      [state |-> "no_identifiers", timestamp |-> 0, identifiers |-> {}] }

CacheDeployments ==
    { [PLEX_URL |-> TRUE, PLEX_TOKEN |-> TRUE,
       names |-> <<"sappy_christmas">>,
       TAGGER_CONFIGS |-> [sappy_christmas |-> SappyOne],
       TRAKT_API_CONFIG |-> [client_id |-> TRUE]],
      [PLEX_URL |-> TRUE, PLEX_TOKEN |-> TRUE,
       names |-> <<"sappy_christmas">>,
       TAGGER_CONFIGS |-> [sappy_christmas |-> SappyTwo],
       TRAKT_API_CONFIG |-> [client_id |-> TRUE, cache_lifetime_hours |-> 1]],
      [PLEX_URL |-> TRUE, PLEX_TOKEN |-> TRUE,
       names |-> <<"sappy_christmas">>,
       TAGGER_CONFIGS |-> [sappy_christmas |-> SappyOne],
       TRAKT_API_CONFIG |-> [cache_lifetime_hours |-> 1]],
      [PLEX_URL |-> TRUE, PLEX_TOKEN |-> TRUE,
       names |-> <<"sappy_christmas">>,
       TAGGER_CONFIGS |-> [sappy_christmas |-> SappyNoKeywords],
       TRAKT_API_CONFIG |-> [client_id |-> FALSE]] }

InitCache ==
    /\ dep \in CacheDeployments
    /\ labels \in [Movies -> {{}, {unmanaged}}]
    /\ cache \in CacheFiles
    /\ now = 0
    /\ pc = "idle"
    /\ tagIdx = 0
    /\ movies = <<>>
    /\ movIdx = 0
    /\ trakt_movie_identifiers = {}
    /\ counters = ZeroCounters
    /\ aiCalls = NoCalls
    /\ printed = <<>>
    /\ started = <<>>
    /\ fetch = NoFetch
    /\ ev = Idle

(***************************************************************************)
(* get_ai_decision (lines 40-53)                                           *)
(***************************************************************************)
\* prompt_template.format(title=..., summary=...) raises on any replacement
\* field other than the two it is given (line 42, before the try).
FormatRaises(prompt_template) ==
    \E i \in DOMAIN prompt_template :
        prompt_template[i] \notin {"text", "{title}", "{summary}"}

\* Lines 44-53 on the endpoint's answer: "true" | "false".
ParseAiResponse(resp) ==
    IF resp.kind # "json"
    THEN "false"
    ELSE LET result == lower(strip(Get(resp.body, "response",
                                       <<"F","a","l","s","e">>)))
         IN  IF Contains(<<"t","r","u","e">>, result) THEN "true" ELSE "false"

\* "raise" | "true" | "false"
get_ai_decision(prompt_template, resp) ==
    IF FormatRaises(prompt_template) THEN "raise" ELSE ParseAiResponse(resp)

(***************************************************************************)
(* The Trakt list and its cache (lines 55-145)                             *)
(***************************************************************************)
\* The file is absent (FileNotFoundError), is not JSON (JSONDecodeError) or
\* has no 'timestamp' (KeyError): line 69 returns None.  A 'timestamp' that
\* is not an ISO-8601 text makes fromisoformat raise ValueError, which line 69
\* does not name.  'identifiers' is read on line 65, after the age test.
load_trakt_cache(cache_file, cache_lifetime_hours) ==
    IF cache_file.state \in {"absent", "not_json", "no_timestamp"}
    THEN [hit |-> FALSE, raised |-> FALSE, identifiers |-> {}]
    ELSE IF cache_file.state = "bad_timestamp"
    THEN [hit |-> FALSE, raised |-> TRUE, identifiers |-> {}]
    ELSE IF now - cache_file.timestamp < cache_lifetime_hours
            /\ cache_file.state = "ok"
    THEN [hit |-> TRUE, raised |-> FALSE, identifiers |-> cache_file.identifiers]
    ELSE [hit |-> FALSE, raised |-> FALSE, identifiers |-> {}]

\* save_trakt_cache that writes an empty 'identifiers' list (line 78)
save_trakt_cache_NoIdentifiers(identifiers) ==
    [state |-> "ok", timestamp |-> now, identifiers |-> {}]

save_trakt_cache(identifiers) ==
    [state |-> "ok", timestamp |-> now, identifiers |-> identifiers]

\* Lines 114-121 for one item of the list
ItemIdentifiers(item) ==
    IF "movie" \notin DOMAIN item
    THEN {}
    ELSE LET movie == item.movie
             ids   == movie.ids
         IN  (IF "imdb" \in DOMAIN ids /\ ids.imdb # <<>> THEN {ids.imdb} ELSE {})
             \cup (IF "tmdb" \in DOMAIN ids /\ ids.tmdb # 0
                   THEN {str(ids.tmdb)} ELSE {})
             \cup (IF Get(movie, "title", <<>>) # <<>>
                   THEN {lower(movie.title)} ELSE {})

TraktIdentifiers(trakt_items) ==
    UNION {ItemIdentifiers(trakt_items[i]) : i \in DOMAIN trakt_items}

\* int(e.response.headers.get("Retry-After", 5)), line 127
IsNumber(s) == s # <<>> /\ \A i \in DOMAIN s : \E d \in DOMAIN Digits : Digits[d] = s[i]

RECURSIVE int(_)
int(s) ==
    IF s = <<>> THEN 0
    ELSE 10 * int(SubSeq(s, 1, Len(s) - 1))
         + (CHOOSE d \in 0..9 : Digits[d + 1] = s[Len(s)])

(***************************************************************************)
(* run_scanner's decision for one movie (lines 187-239)                    *)
(***************************************************************************)
\* line 187
LoweredLabels(movieLabels) == {lower(l) : l \in movieLabels}

\* line 190
IsConflict(cfg, movieLabels) ==
    /\ cfg.reject_label \in LoweredLabels(movieLabels)
    /\ cfg.add_label \in LoweredLabels(movieLabels)

\* line 195
IsDecided(cfg, movieLabels) ==
    \/ cfg.add_label \in LoweredLabels(movieLabels)
    \/ cfg.reject_label \in LoweredLabels(movieLabels)

\* lines 201-210
plex_movie_ids(movie) ==
    {lower(movie.title)}
    \cup (IF movie.imdbID # <<>> THEN {movie.imdbID} ELSE {})
    \cup (IF movie.tmdbId # 0 THEN {str(movie.tmdbId)} ELSE {})

\* lines 200, 212
IsTraktMatch(identifiers, movie) ==
    /\ identifiers # {}
    /\ identifiers \cap plex_movie_ids(movie) # {}

\* KeywordMatches without keyword.lower() (line 231)
KeywordMatches_CaseSensitive(pre_ai_keywords, movie) ==
    LET search_text == lower(movie.title \o <<" ">> \o movie.summary)
    IN  Cardinality({i \in DOMAIN pre_ai_keywords :
                        Contains(pre_ai_keywords[i], search_text)})

\* lines 228-232
KeywordMatches(pre_ai_keywords, movie) ==
    LET search_text == lower(movie.title \o <<" ">> \o movie.summary)
    IN  Cardinality({i \in DOMAIN pre_ai_keywords :
                        Contains(lower(pre_ai_keywords[i]), search_text)})

\* IsKeywordReject that never reads pre_ai_keyword_threshold (line 225)
IsKeywordReject_DefaultThreshold(tagger, cfg, movie) ==
    /\ tagger = "sappy_christmas"
    /\ Get(cfg, "pre_ai_keywords", <<>>) # <<>>
    /\ KeywordMatches(cfg.pre_ai_keywords, movie) < DefaultKeywordThreshold

\* lines 223-234
IsKeywordReject(tagger, cfg, movie) ==
    /\ tagger = "sappy_christmas"
    /\ Get(cfg, "pre_ai_keywords", <<>>) # <<>>
    /\ KeywordMatches(cfg.pre_ai_keywords, movie)
         < Get(cfg, "pre_ai_keyword_threshold", DefaultKeywordThreshold)

\* Stage with the keyword filter tried before the Trakt match
Stage_KeywordFirst(tagger, cfg, identifiers, m) ==
    IF IsConflict(cfg, m.labels) THEN "conflict"
    ELSE IF IsDecided(cfg, m.labels) THEN "skip"
    ELSE IF IsKeywordReject(tagger, cfg, LIBRARY[m.id]) THEN "keyword"
    ELSE IF IsTraktMatch(identifiers, LIBRARY[m.id]) THEN "trakt"
    ELSE "ai"

\* The first rule of the loop body that applies.
Stage(tagger, cfg, identifiers, m) ==
    IF IsConflict(cfg, m.labels) THEN "conflict"
    ELSE IF IsDecided(cfg, m.labels) THEN "skip"
    ELSE IF IsTraktMatch(identifiers, LIBRARY[m.id]) THEN "trakt"
    ELSE IF IsKeywordReject(tagger, cfg, LIBRARY[m.id]) THEN "keyword"
    ELSE "ai"

(***************************************************************************)
(* orchestrate_scans and run_scanner                                       *)
(***************************************************************************)
config_name == dep.names[tagIdx]

config == TAGGER_CONFIGS[config_name]

\* trakt_client_id that is always present (line 162)
trakt_client_id_Always == TRUE

\* line 162; fetch_trakt_list_movies tests it on line 88
trakt_client_id == Get(TRAKT_API_CONFIG, "client_id", FALSE)

\* line 92
cache_lifetime_hours ==
    Get(TRAKT_API_CONFIG, "cache_lifetime_hours", DefaultCacheLifetimeHours)

\* The scheduler (or --scan) calls orchestrate_scans, lines 258-260.
OrchestrateScans ==
    /\ pc = "idle"
    /\ \E d \in Elapsed :
          /\ now + d <= MaxNow
          /\ now' = now + d
    /\ pc' = "orchestrate"
    /\ tagIdx' = 1
    /\ ev' = Event("orchestrate", "none", "none", "none")
    /\ UNCHANGED <<dep, labels, cache, movies, movIdx, trakt_movie_identifiers,
                   counters, aiCalls, printed, started, fetch>>

\* run_scanner up to its first request: lines 147-164 with
\* fetch_trakt_list_movies lines 86-105.
RunScannerBegin ==
    /\ pc = "orchestrate"
    /\ tagIdx <= Len(dep.names)
    /\ started' = Append(started, config_name)
    /\ aiCalls' = NoCalls
    /\ counters' = ZeroCounters
    /\ fetch' = NoFetch
    /\ IF config_name # "sappy_christmas"
       THEN /\ trakt_movie_identifiers' = {}
            /\ pc' = "connect"
            /\ ev' = Event("begin", config_name, "none", "none")
       ELSE IF ~trakt_client_id
       THEN /\ trakt_movie_identifiers' = {}
            /\ pc' = "connect"
            /\ ev' = Event("no_client_id", config_name, "none", "none")
       ELSE LET cached == load_trakt_cache(cache, cache_lifetime_hours)
            IN  IF cached.raised
                THEN \* the ValueError leaves run_scanner (line 163 is before
                     \* the try of line 166) and orchestrate_scans
                     /\ trakt_movie_identifiers' = {}
                     /\ pc' = "crashed"
                     /\ ev' = Event("cache_raised", config_name, "none", "none")
                ELSE IF cached.hit
                THEN /\ trakt_movie_identifiers' = cached.identifiers
                     /\ pc' = "connect"
                     /\ ev' = Event("cache_hit", config_name, "none", "none")
                ELSE /\ trakt_movie_identifiers' = {}
                     /\ pc' = "fetch"
                     /\ ev' = Event("cache_miss", config_name, "none", "none")
    /\ UNCHANGED <<dep, labels, cache, now, tagIdx, movies, movIdx, printed>>

\* One turn of the retry loop, lines 106-145.
FetchReturns(identifiers, kind, f) ==
    /\ trakt_movie_identifiers' = identifiers
    /\ pc' = "connect"
    /\ fetch' = f
    /\ ev' = Event(kind, config_name, "none", "none")

\* time.sleep(seconds), then the next turn of the loop if there is one
FetchRetries(f, seconds) ==
    LET g == [f EXCEPT !.i = @ + 1, !.sleeps = @ + 1]
    IN  IF g.i < retries
        THEN /\ fetch' = g
             /\ UNCHANGED <<trakt_movie_identifiers, pc>>
             /\ ev' = Event("fetch_retry", config_name, "none", "none")
        ELSE FetchReturns({}, "fetch_failed", g)

FetchAttempt ==
    /\ pc = "fetch"
    /\ \E resp \in TraktResponses :
          LET f == [fetch EXCEPT !.requests = @ + 1] IN
          IF resp.kind = "ok"
          THEN /\ cache' = save_trakt_cache(TraktIdentifiers(resp.items))
               /\ FetchReturns(TraktIdentifiers(resp.items), "fetch_ok", f)
          ELSE /\ UNCHANGED cache
               /\ IF resp.kind = "http" /\ resp.status_code = 429
                  THEN IF "RetryAfter" \notin DOMAIN resp.headers
                       THEN FetchRetries(f, DefaultRetryAfter)
                       ELSE IF IsNumber(resp.headers.RetryAfter)
                       THEN FetchRetries(f, int(resp.headers.RetryAfter))
                       ELSE \* int() raises ValueError inside the handler
                            /\ pc' = "crashed"
                            /\ fetch' = f
                            /\ ev' = Event("fetch_raised", config_name, "none", "none")
                            /\ UNCHANGED trakt_movie_identifiers
                  ELSE IF fetch.i < retries - 1
                       THEN FetchRetries(f, FixedBackoff)
                       ELSE FetchReturns({}, "fetch_failed", f)
    /\ UNCHANGED <<dep, labels, now, tagIdx, movies, movIdx, counters, aiCalls,
                   printed, started>>

\* plex.library.section(LIBRARY_NAME).search(genre=...) / .all(), lines 172-176:
\* the movie objects, each with the labels it has when it is fetched.
MovieObject(m) == [id |-> m, labels |-> labels[m]]

\* SearchMovies that ignores the genre filter (line 174)
SearchMovies_AllGenres(genres_to_search) ==
    [i \in 1..Len(MovieOrder) |-> MovieObject(MovieOrder[i])]

SearchMovies(genres_to_search) ==
    LET wanted(m) ==
            \/ genres_to_search = <<>>
            \/ \E i \in DOMAIN genres_to_search :
                  genres_to_search[i] \in LIBRARY[m].genres
        found == SelectSeq(MovieOrder, wanted)
    IN  [i \in 1..Len(found) |-> MovieObject(found[i])]

\* run_scanner returns to orchestrate_scans.
ScannerReturns ==
    /\ pc' = "orchestrate"
    /\ tagIdx' = tagIdx + 1
    /\ movies' = <<>>
    /\ movIdx' = 0
    /\ trakt_movie_identifiers' = {}
    /\ fetch' = NoFetch

HasCredentials == dep.PLEX_URL /\ dep.PLEX_TOKEN

\* ConnectionError without the handler of lines 177-179
ConnectionError_Raises ==
    /\ pc' = "crashed"
    /\ UNCHANGED <<tagIdx, movies, movIdx, trakt_movie_identifiers>>
    /\ fetch' = NoFetch
    /\ ev' = Event("connection_error", config_name, "none", "none")

\* Lines 167-169 and 177-179: log, and return from run_scanner.
ConnectionError ==
    /\ ScannerReturns
    /\ ev' = Event("connection_error", config_name, "none", "none")

\* Lines 166-183.
Connect ==
    /\ pc = "connect"
    /\ \E reachable \in BOOLEAN :
          IF HasCredentials /\ reachable
          THEN /\ movies' = SearchMovies(Get(config, "genres", <<>>))
               /\ movIdx' = 1
               /\ pc' = "loop"
               /\ fetch' = NoFetch
               /\ ev' = Event("connected", config_name, "none", "none")
               /\ UNCHANGED <<tagIdx, trakt_movie_identifiers>>
          ELSE ConnectionError
    /\ UNCHANGED <<dep, labels, cache, now, counters, aiCalls, printed, started>>

\* NextMovie that stays on the same movie
NextMovie_SameMovie ==
    UNCHANGED <<pc, tagIdx, movies, movIdx, trakt_movie_identifiers, fetch>>

\* The loop goes on to the next movie (continue, or the end of the body).
NextMovie ==
    /\ movIdx' = movIdx + 1
    /\ UNCHANGED <<pc, tagIdx, movies, trakt_movie_identifiers, fetch>>

\* An uncaught exception leaves run_scanner, orchestrate_scans and the process.
Raises ==
    /\ pc' = "crashed"
    /\ UNCHANGED <<tagIdx, movies, movIdx, trakt_movie_identifiers, fetch>>

Processed == [counters EXCEPT !.processed = @ + 1]

\* One turn of the loop over movies, lines 185-251.
ProcessMovie ==
    /\ pc = "loop"
    /\ movIdx <= Len(movies)
    /\ LET m     == movies[movIdx]
           stage == Stage(config_name, config, trakt_movie_identifiers, m)
       IN  \/ /\ stage = "conflict"
              /\ labels' = [labels EXCEPT ![m.id] = removeLabel(@, config.add_label)]
              /\ counters' = Processed
              /\ ev' = Event("conflict", config_name, m.id, "none")
              /\ NextMovie
              /\ UNCHANGED aiCalls
           \/ /\ stage = "skip"
              /\ counters' = Processed
              /\ ev' = Event("skip", config_name, m.id, "none")
              /\ NextMovie
              /\ UNCHANGED <<labels, aiCalls>>
           \/ /\ stage = "trakt"
              /\ labels' = [labels EXCEPT ![m.id] = addLabel(@, config.add_label)]
              /\ counters' = [Processed EXCEPT !.tagged = @ + 1]
              /\ ev' = Event("trakt", config_name, m.id, "none")
              /\ NextMovie
              /\ UNCHANGED aiCalls
           \/ /\ stage = "keyword"
              /\ labels' = [labels EXCEPT ![m.id] = addLabel(@, config.reject_label)]
              /\ counters' = [Processed EXCEPT !.rejected = @ + 1]
              /\ ev' = Event("keyword", config_name, m.id, "none")
              /\ NextMovie
              /\ UNCHANGED aiCalls
           \/ /\ stage = "ai"
              /\ \E resp \in AiResponses :
                    LET is_match == get_ai_decision(config.prompt, resp) IN
                    IF is_match = "raise"
                    THEN /\ Raises
                         /\ counters' = Processed
                         /\ ev' = Event("ai_raised", config_name, m.id, "raise")
                         /\ UNCHANGED <<labels, aiCalls>>
                    ELSE /\ aiCalls' = [aiCalls EXCEPT ![m.id] = @ + 1]
                         /\ ev' = Event("ai", config_name, m.id, is_match)
                         /\ NextMovie
                         /\ IF is_match = "true"
                            THEN /\ labels' = [labels EXCEPT ![m.id] =
                                                  addLabel(@, config.add_label)]
                                 /\ counters' = [Processed EXCEPT !.tagged = @ + 1]
                            ELSE /\ labels' = [labels EXCEPT ![m.id] =
                                                  addLabel(@, config.reject_label)]
                                 /\ counters' = [Processed EXCEPT !.rejected = @ + 1]
    /\ UNCHANGED <<dep, cache, now, printed, started>>

\* The summary after the loop, lines 253-256.
FinishScanner ==
    /\ pc = "loop"
    /\ movIdx > Len(movies)
    /\ printed' = Append(printed, [tagger |-> config_name, counters |-> counters])
    /\ ScannerReturns
    /\ ev' = Event("finished", config_name, "none", "none")
    /\ UNCHANGED <<dep, labels, cache, now, counters, aiCalls, started>>

\* orchestrate_scans returns, line 263.
OrchestrateDone ==
    /\ pc = "orchestrate"
    /\ tagIdx > Len(dep.names)
    /\ pc' = "idle"
    /\ tagIdx' = 0
    /\ counters' = ZeroCounters
    /\ aiCalls' = NoCalls
    /\ printed' = <<>>
    /\ started' = <<>>
    /\ ev' = Idle
    /\ UNCHANGED <<dep, labels, cache, now, movies, movIdx,
                   trakt_movie_identifiers, fetch>>

(***************************************************************************)
(* reset_all_tags (lines 265-300)                                          *)
(***************************************************************************)
\* lines 275-278
all_managed_labels ==
    UNION {{TAGGER_CONFIGS[n].add_label, TAGGER_CONFIGS[n].reject_label} :
             n \in DOMAIN TAGGER_CONFIGS}

\* lines 285-290
labels_to_remove(movieLabels) ==
    {managed_label \in all_managed_labels :
        managed_label \in LoweredLabels(movieLabels)}

RECURSIVE RemoveAll(_, _)
RemoveAll(movieLabels, toRemove) ==
    IF toRemove = {} THEN movieLabels
    ELSE LET label == CHOOSE l \in toRemove : TRUE
         IN  RemoveAll(removeLabel(movieLabels, label), toRemove \ {label})

\* Lines 267-282: --reset calls reset_all_tags, which connects and lists
\* every movie.
ResetAllTags ==
    /\ pc = "idle"
    /\ \E reachable \in BOOLEAN :
          IF HasCredentials /\ reachable
          THEN /\ movies' = SearchMovies(<<>>)
               /\ movIdx' = 1
               /\ pc' = "reset"
               /\ ev' = Event("reset_connected", "none", "none", "none")
          ELSE /\ pc' = "reset_done"
               /\ ev' = Event("reset_error", "none", "none", "none")
               /\ UNCHANGED <<movies, movIdx>>
    /\ UNCHANGED <<dep, labels, cache, now, tagIdx, trakt_movie_identifiers,
                   counters, aiCalls, printed, started, fetch>>

\* One turn of the loop over movies, lines 284-295.
ResetMovie ==
    /\ pc = "reset"
    /\ movIdx <= Len(movies)
    /\ LET m == movies[movIdx]
       IN  /\ labels' = [labels EXCEPT ![m.id] =
                            RemoveAll(@, labels_to_remove(m.labels))]
           /\ ev' = Event("reset_movie", "none", m.id, "none")
    /\ movIdx' = movIdx + 1
    /\ UNCHANGED <<dep, cache, now, pc, tagIdx, movies, trakt_movie_identifiers,
                   counters, aiCalls, printed, started, fetch>>

\* Line 300.
ResetLoopEnds ==
    /\ pc = "reset"
    /\ movIdx > Len(movies)
    /\ pc' = "reset_done"
    /\ movies' = <<>>
    /\ movIdx' = 0
    /\ ev' = Event("reset", "none", "none", "none")
    /\ UNCHANGED <<dep, labels, cache, now, tagIdx, trakt_movie_identifiers,
                   counters, aiCalls, printed, started, fetch>>

\* reset_all_tags has returned and the process exits.
ResetReturns ==
    /\ pc = "reset_done"
    /\ pc' = "idle"
    /\ ev' = Idle
    /\ UNCHANGED <<dep, labels, cache, now, tagIdx, movies, movIdx,
                   trakt_movie_identifiers, counters, aiCalls, printed, started,
                   fetch>>

Next ==
    \/ OrchestrateScans
    \/ RunScannerBegin
    \/ FetchAttempt
    \/ Connect
    \/ ProcessMovie
    \/ FinishScanner
    \/ OrchestrateDone
    \/ ResetAllTags
    \/ ResetMovie
    \/ ResetLoopEnds
    \/ ResetReturns

Spec == Init /\ [][Next]_vars

SpecCache == InitCache /\ [][Next]_vars

(***************************************************************************)
(* The same program with a label store that may refuse a write: plexapi    *)
(* raises from addLabel / removeLabel, and the loop of run_scanner has no  *)
(* handler (lines 185-251).                                                *)
(***************************************************************************)
ProcessMovieStoreError ==
    /\ pc = "loop"
    /\ movIdx <= Len(movies)
    /\ LET m     == movies[movIdx]
           stage == Stage(config_name, config, trakt_movie_identifiers, m)
       IN  \/ /\ stage \in {"conflict", "trakt", "keyword"}
              /\ ev' = Event("store_error", config_name, m.id, "none")
              /\ UNCHANGED aiCalls
           \/ /\ stage = "ai"
              /\ \E resp \in AiResponses :
                    LET is_match == get_ai_decision(config.prompt, resp) IN
                    /\ is_match # "raise"
                    /\ aiCalls' = [aiCalls EXCEPT ![m.id] = @ + 1]
                    /\ ev' = Event("store_error", config_name, m.id, is_match)
    /\ Raises
    /\ counters' = Processed
    /\ UNCHANGED <<dep, labels, cache, now, printed, started>>

NextFaults == Next \/ ProcessMovieStoreError

SpecFaults == Init /\ [][NextFaults]_vars

(***************************************************************************)
(* The same program next to another user of the Plex server.  The turn of  *)
(* the loop that reaches get_ai_decision is taken in two steps, the        *)
(* request of line 44 and its answer, and the other user may label the     *)
(* movie while the request is in flight (timeout=45, line 48).             *)
(***************************************************************************)
\* Lines 187-242 and 42-48 for a movie that no earlier rule decides.
AskClassifier ==
    /\ pc = "loop"
    /\ movIdx <= Len(movies)
    /\ LET m == movies[movIdx]
       IN  /\ Stage(config_name, config, trakt_movie_identifiers, m) = "ai"
           /\ ~FormatRaises(config.prompt)
           /\ aiCalls' = [aiCalls EXCEPT ![m.id] = @ + 1]
           /\ ev' = Event("ask", config_name, m.id, "none")
    /\ pc' = "classify"
    /\ counters' = Processed
    /\ UNCHANGED <<dep, labels, cache, now, tagIdx, movies, movIdx,
                   trakt_movie_identifiers, printed, started, fetch>>

\* Another user gives the movie one of the tagger's two labels.
ExternalActor ==
    /\ pc = "classify"
    /\ LET m == movies[movIdx]
       IN  /\ \E l \in {config.add_label, config.reject_label} :
                 /\ \A k \in labels[m.id] :
                        lower(k) \notin {lower(config.add_label),
                                         lower(config.reject_label)}
                 /\ labels' = [labels EXCEPT ![m.id] = addLabel(@, l)]
           /\ ev' = Event("external", config_name, m.id, "none")
    /\ UNCHANGED <<dep, cache, now, pc, tagIdx, movies, movIdx,
                   trakt_movie_identifiers, counters, aiCalls, printed, started,
                   fetch>>

\* Lines 49-53 and 244-251: the answer arrives and the label is written.
ClassifierAnswers ==
    /\ pc = "classify"
    /\ LET m == movies[movIdx]
       IN  \E resp \in AiResponses :
              LET is_match == ParseAiResponse(resp) IN
              /\ ev' = Event("ai", config_name, m.id, is_match)
              /\ IF is_match = "true"
                 THEN /\ labels' = [labels EXCEPT ![m.id] =
                                       addLabel(@, config.add_label)]
                      /\ counters' = [counters EXCEPT !.tagged = @ + 1]
                 ELSE /\ labels' = [labels EXCEPT ![m.id] =
                                       addLabel(@, config.reject_label)]
                      /\ counters' = [counters EXCEPT !.rejected = @ + 1]
    /\ pc' = "loop"
    /\ movIdx' = movIdx + 1
    /\ UNCHANGED <<dep, cache, now, tagIdx, movies, trakt_movie_identifiers,
                   aiCalls, printed, started, fetch>>

NextConcurrent == Next \/ AskClassifier \/ ExternalActor \/ ClassifierAnswers

SpecConcurrent == InitCache /\ [][NextConcurrent]_vars

(***************************************************************************)
(* Vocabulary of the properties.  ev names the step just taken and keeps   *)
(* the label store and the counters as they were before it.                *)
(***************************************************************************)
ItemSteps == {"conflict", "skip", "trakt", "keyword", "ai", "ai_raised"}

evConfig == TAGGER_CONFIGS[ev.tagger]

Before == ev.lib[ev.movie]

After == labels[ev.movie]

\* A label set carries a label when it holds it in some letter case.
Carries(labelSet, name) == \E l \in labelSet : lower(l) = lower(name)

CarriesBoth(labelSet, cfg) ==
    Carries(labelSet, cfg.add_label) /\ Carries(labelSet, cfg.reject_label)

CarriesNeither(labelSet, cfg) ==
    ~Carries(labelSet, cfg.add_label) /\ ~Carries(labelSet, cfg.reject_label)

CarriesOne(labelSet, cfg) ==
    ~CarriesBoth(labelSet, cfg) /\ ~CarriesNeither(labelSet, cfg)

\* The movies a tagger's genre filter selects.
Universe(tagger) ==
    LET genres == Get(TAGGER_CONFIGS[tagger], "genres", <<>>)
    IN  {m \in Movies :
            genres = <<>> \/ \E i \in DOMAIN genres : genres[i] \in LIBRARY[m].genres}

\* The reference set meets {lowercased title} and the external identifiers.
ReferenceMatch(identifiers, movie) ==
    \/ lower(movie.title) \in identifiers
    \/ movie.imdbID # <<>> /\ movie.imdbID \in identifiers
    \/ movie.tmdbId # 0 /\ str(movie.tmdbId) \in identifiers

\* How many of the keywords occur, ignoring case, in title + " " + summary.
MatchCount(keywords, movie) ==
    Cardinality({i \in DOMAIN keywords :
        Contains(lower(keywords[i]),
                 lower(movie.title) \o <<" ">> \o lower(movie.summary))})

Keywords(cfg) == Get(cfg, "pre_ai_keywords", <<>>)

Threshold(cfg) == Get(cfg, "pre_ai_keyword_threshold", 1)

TaggedAndRejectedUnchanged ==
    /\ counters.tagged = ev.counters.tagged
    /\ counters.rejected = ev.counters.rejected

(***************************************************************************)
(* C1: when a tagger's pass has completed, no movie of its universe        *)
(* carries both its add_label and its reject_label.                        *)
(* Violated: the presence tests of lines 190 and 195 compare the           *)
(* configured spelling with the lowercased labels (see C4).                *)
(***************************************************************************)
C1_AtMostOneLabelAfterPass ==
    ev.kind = "finished" =>
        \A m \in Universe(ev.tagger) : ~CarriesBoth(labels[m], evConfig)

(***************************************************************************)
(* C2: a movie that carries both labels when it is processed loses         *)
(* add_label, keeps reject_label, and nothing else happens for it: the     *)
(* step is the conflict rule, no classifier request, tagged and rejected   *)
(* unchanged.  Violated for the same reason as C1.                         *)
(***************************************************************************)
C2_ConflictRemovesAddLabel ==
    (ev.kind \in ItemSteps /\ CarriesBoth(Before, evConfig)) =>
        /\ ev.kind = "conflict"
        /\ ~Carries(After, evConfig.add_label)
        /\ Carries(After, evConfig.reject_label)
        /\ After = {l \in Before : lower(l) # lower(evConfig.add_label)}
        /\ aiCalls[ev.movie] = 0
        /\ TaggedAndRejectedUnchanged

(***************************************************************************)
(* C3: a movie that carries exactly one of the two labels is left as it    *)
(* is by a pass, and no classifier request is made for it.  Violated for   *)
(* the same reason as C1.                                                  *)
(***************************************************************************)
C3_DecidedMovieIsSkipped ==
    (ev.kind \in ItemSteps /\ CarriesOne(Before, evConfig)) =>
        /\ ev.kind = "skip"
        /\ After = Before
        /\ aiCalls[ev.movie] = 0

(***************************************************************************)
(* C4: presence of a managed label is decided ignoring case, whatever the  *)
(* spelling in the configuration and on the movie: the conflict rule, the  *)
(* already-decided rule and reset_all_tags all see a label that is equal   *)
(* ignoring case.  Violated: only the movie's labels are lowercased.       *)
(***************************************************************************)
C4_PresenceIgnoresCase ==
    /\ (ev.kind \in ItemSteps /\ CarriesBoth(Before, evConfig))
           => ev.kind = "conflict"
    /\ (ev.kind \in ItemSteps /\ CarriesOne(Before, evConfig))
           => ev.kind = "skip"
    /\ ev.kind = "reset_movie"
           => \A n \in DOMAIN TAGGER_CONFIGS :
                 CarriesNeither(After, TAGGER_CONFIGS[n])

(***************************************************************************)
(* C5: a movie that carries neither label, with a non-empty reference set  *)
(* that meets its lowercased title or one of its external identifiers,     *)
(* gets add_label from the Trakt rule: no classifier request, no keyword   *)
(* rejection, whatever the keywords, the threshold and the classifier.     *)
(***************************************************************************)
C5_ReferenceMatchAddsLabel ==
    (/\ ev.kind \in ItemSteps
     /\ CarriesNeither(Before, evConfig)
     /\ trakt_movie_identifiers # {}
     /\ ReferenceMatch(trakt_movie_identifiers, LIBRARY[ev.movie])) =>
        /\ ev.kind = "trakt"
        /\ After = Before \cup {evConfig.add_label}
        /\ aiCalls[ev.movie] = 0
        /\ counters.rejected = ev.counters.rejected
        /\ counters.tagged = ev.counters.tagged + 1
        /\ pc = "loop"

C5_Witness ==
    /\ ev.kind = "trakt"
    /\ Keywords(evConfig) # <<>>
    /\ MatchCount(Keywords(evConfig), LIBRARY[ev.movie]) < Threshold(evConfig)
    /\ evConfig.add_label \in After
    /\ evConfig.add_label \notin Before

(***************************************************************************)
(* C6 as stated: under any tagger that declares pre_ai_keywords, a movie   *)
(* with neither label and no reference match whose match count is below    *)
(* the threshold gets reject_label without a classifier request.           *)
(* Violated: line 223 applies the filter to "sappy_christmas" only.        *)
(***************************************************************************)
KeywordRejectExpected ==
    /\ ev.kind \in ItemSteps
    /\ Keywords(evConfig) # <<>>
    /\ CarriesNeither(Before, evConfig)
    /\ ~ReferenceMatch(trakt_movie_identifiers, LIBRARY[ev.movie])
    /\ MatchCount(Keywords(evConfig), LIBRARY[ev.movie]) < Threshold(evConfig)

KeywordRejected ==
    /\ ev.kind = "keyword"
    /\ After = Before \cup {evConfig.reject_label}
    /\ aiCalls[ev.movie] = 0
    /\ counters.rejected = ev.counters.rejected + 1
    /\ pc = "loop"

C6_KeywordRejectAnyTagger == KeywordRejectExpected => KeywordRejected

(***************************************************************************)
(* C6 amended: the same for the tagger named "sappy_christmas"; under any  *)
(* other name the keywords are not read and the movie goes to the          *)
(* classifier.                                                             *)
(***************************************************************************)
C6_KeywordRejectSappyChristmas ==
    /\ (KeywordRejectExpected /\ ev.tagger = "sappy_christmas") => KeywordRejected
    /\ (KeywordRejectExpected /\ ev.tagger # "sappy_christmas")
           => ev.kind \in {"ai", "ai_raised"}

C6_Witness ==
    /\ ev.kind = "keyword"
    /\ ev.tagger = "sappy_christmas"
    /\ Threshold(evConfig) = 2
    /\ MatchCount(Keywords(evConfig), LIBRARY[ev.movie]) = 1
    /\ evConfig.reject_label \in After

(***************************************************************************)
(* C7: a movie with neither label, no reference match and no keyword       *)
(* rejection (no keywords, or match count >= threshold) goes to the        *)
(* classifier; an answer of true adds exactly add_label, an answer of      *)
(* false exactly reject_label, so an unlabelled movie ends with            *)
(* {add_label} or {reject_label}.                                          *)
(***************************************************************************)
C7_ClassifierDecides ==
    (/\ ev.kind \in ItemSteps
     /\ CarriesNeither(Before, evConfig)
     /\ ~ReferenceMatch(trakt_movie_identifiers, LIBRARY[ev.movie])
     /\ \/ Keywords(evConfig) = <<>>
        \/ MatchCount(Keywords(evConfig), LIBRARY[ev.movie]) >= Threshold(evConfig)) =>
        /\ ev.kind \in {"ai", "ai_raised"}
        /\ ev.kind = "ai" =>
              /\ aiCalls[ev.movie] = 1
              /\ ev.ai \in {"true", "false"}
              /\ ev.ai = "true" =>
                    /\ After = Before \cup {evConfig.add_label}
                    /\ Before = {} => After = {evConfig.add_label}
                    /\ counters.tagged = ev.counters.tagged + 1
              /\ ev.ai = "false" =>
                    /\ After = Before \cup {evConfig.reject_label}
                    /\ Before = {} => After = {evConfig.reject_label}
                    /\ counters.rejected = ev.counters.rejected + 1

C7_Witness ==
    /\ ev.kind = "ai"
    /\ ev.ai = "true"
    /\ Keywords(evConfig) # <<>>
    /\ ev.tagger = "sappy_christmas"
    /\ Before = {}
    /\ After = {evConfig.add_label}

(***************************************************************************)
(* C8: get_ai_decision never raises to its caller, whatever fails on the   *)
(* classification path.  Violated: the template is rendered on line 42,    *)
(* before the try of line 43.                                              *)
(***************************************************************************)
C8_ClassifierNeverRaises ==
    ev.kind \in {"ai", "ai_raised"} => (ev.ai \in {"true", "false"} /\ pc = "loop")

(***************************************************************************)
(* C9: a failure while one movie is processed does not abort the rest:     *)
(* the loop goes on with the next movie.  Violated under SpecFaults: an    *)
(* exception of addLabel / removeLabel leaves run_scanner and              *)
(* orchestrate_scans.                                                      *)
(***************************************************************************)
C9_ItemFailureDoesNotAbort ==
    ev.kind = "store_error" => pc = "loop"

(***************************************************************************)
(* C10: when the library is unreachable or the credentials are missing at  *)
(* the start of a pass, the pass changes no label and asks the classifier  *)
(* nothing, run_scanner returns, and orchestrate_scans goes on with the    *)
(* taggers in the order of TAGGER_CONFIGS.                                 *)
(***************************************************************************)
C10_ConnectionErrorSkipsTagger ==
    /\ ev.kind = "connection_error" =>
          /\ labels = ev.lib
          /\ aiCalls = NoCalls
          /\ pc = "orchestrate"
          /\ ev.tagger = dep.names[tagIdx - 1]
          /\ printed = SelectSeq(printed, LAMBDA line : line.tagger # ev.tagger)
    /\ pc = "orchestrate" => started = SubSeq(dep.names, 1, tagIdx - 1)
    /\ pc \in {"fetch", "connect", "loop"} => started = SubSeq(dep.names, 1, tagIdx)

\* The second tagger is in its loop after the first one could not connect.
C10_Witness ==
    /\ pc = "loop"
    /\ tagIdx = 2
    /\ started = dep.names
    /\ printed = <<>>
    /\ HasCredentials

(***************************************************************************)
(* Vocabulary of the properties of fetch_trakt_list_movies                 *)
(***************************************************************************)
\* The steps in which fetch_trakt_list_movies consults the cache file.
CacheReads == {"cache_hit", "cache_miss", "cache_raised"}

\* The steps in which the retry loop is left.
FetchEnds == {"fetch_ok", "fetch_failed", "fetch_raised"}

Lifetime == Get(TRAKT_API_CONFIG, "cache_lifetime_hours", 24)

\* A readable entry younger than the lifetime.
CacheEntryFresh ==
    /\ cache.state = "ok"
    /\ now - cache.timestamp < Lifetime

NoClientId == ~Get(TRAKT_API_CONFIG, "client_id", FALSE)

(***************************************************************************)
(* C11: with a client id, the call returns the persisted identifiers       *)
(* without a request exactly when the cache file holds a readable entry    *)
(* younger than the lifetime; an entry as old as the lifetime or older, an *)
(* absent file and a corrupt file all lead to the remote fetch.            *)
(* Violated: a file whose 'timestamp' is not an ISO-8601 text makes        *)
(* load_trakt_cache raise ValueError, which line 69 does not catch.        *)
(***************************************************************************)
C11_CacheHitIffFresh ==
    ev.kind \in CacheReads =>
        /\ CacheEntryFresh =>
              /\ ev.kind = "cache_hit"
              /\ trakt_movie_identifiers = cache.identifiers
              /\ fetch.requests = 0
              /\ pc = "connect"
        /\ ~CacheEntryFresh =>
              /\ ev.kind = "cache_miss"
              /\ pc = "fetch"

(***************************************************************************)
(* C12: one call makes at most 3 requests; when none of them succeeds the  *)
(* call returns the empty set to run_scanner without raising, whatever an  *)
(* expired cache entry holds.                                              *)
(* Violated: a 429 whose Retry-After is not a number (an HTTP date) makes  *)
(* int() raise inside the handler of line 125.                             *)
(***************************************************************************)
C12_FetchIsBounded ==
    /\ fetch.requests <= 3
    /\ pc = "fetch" => fetch.requests < 3
    /\ (ev.kind \in FetchEnds /\ ev.kind # "fetch_ok") =>
          /\ ev.kind = "fetch_failed"
          /\ fetch.requests = 3
          /\ trakt_movie_identifiers = {}
          /\ pc = "connect"

(***************************************************************************)
(* C12, the cache file: a request that does not succeed leaves             *)
(* trakt_cache.json as it was.  This part of C12 holds.                    *)
(***************************************************************************)
C12_FailedAttemptKeepsCache ==
    [][(pc = "fetch" /\ ev'.kind # "fetch_ok") => cache' = cache]_vars

(***************************************************************************)
(* C13: a successful fetch, on whichever attempt, writes {timestamp: now,  *)
(* identifiers} and returns the identifiers; nothing else writes the file, *)
(* and a call that finds the entry younger than the lifetime returns its   *)
(* identifiers without a request.                                          *)
(***************************************************************************)
C13_Persisted ==
    /\ ev.kind = "fetch_ok" =>
          /\ cache = [state |-> "ok", timestamp |-> now,
                      identifiers |-> trakt_movie_identifiers]
          /\ fetch.requests \in 1..3
          /\ pc = "connect"
    /\ (ev.kind \in CacheReads /\ CacheEntryFresh) =>
          /\ ev.kind = "cache_hit"
          /\ trakt_movie_identifiers = cache.identifiers
          /\ fetch.requests = 0
          /\ pc = "connect"

C13_OnlySuccessWrites ==
    cache' # cache => (pc = "fetch" /\ ev'.kind = "fetch_ok")

C14_NoClientIdSkipsReference ==
    NoClientId =>
        /\ trakt_movie_identifiers = {}
        /\ fetch = NoFetch
        /\ pc # "fetch"
        /\ ev.kind \notin CacheReads \cup FetchEnds \cup {"fetch_retry", "trakt"}
        /\ (ev.kind \in ItemSteps /\ CarriesNeither(Before, evConfig)
              /\ ~FormatRaises(evConfig.prompt)) =>
              /\ ev.kind \in {"keyword", "ai"}
              /\ CarriesOne(After, evConfig)
              /\ pc = "loop"

\* A fresh cache entry that would match the movie is on disk, and the movie
\* is rejected by the keyword filter.
C14_Witness ==
    /\ ev.kind = "keyword"
    /\ NoClientId
    /\ CacheEntryFresh
    /\ ReferenceMatch(cache.identifiers, LIBRARY[ev.movie])
    /\ evConfig.reject_label \in After

(***************************************************************************)
(* C20: within one call every sleep is followed by another request, so     *)
(* when the retry loop is left the sleeps are at most the requests minus   *)
(* one.  Violated: line 129 sleeps after every 429, the third included.    *)
(***************************************************************************)
C20_NoSleepAfterLastAttempt ==
    ev.kind \in FetchEnds => fetch.sleeps <= fetch.requests - 1

(***************************************************************************)
(* Vocabulary of the properties of a whole pass and of reset_all_tags      *)
(***************************************************************************)
\* The label is, ignoring case, the add_label or reject_label of a tagger.
IsManaged(l) ==
    \E n \in DOMAIN TAGGER_CONFIGS :
        lower(l) \in {lower(TAGGER_CONFIGS[n].add_label),
                      lower(TAGGER_CONFIGS[n].reject_label)}

ManagedFree(lib) == \A m \in Movies : \A l \in lib[m] : ~IsManaged(l)

\* Every movie of the tagger's universe carries exactly one of its labels.
UniverseDecided(lib, tagger) ==
    \A m \in Universe(tagger) : CarriesOne(lib[m], TAGGER_CONFIGS[tagger])

OthersUnchanged == \A m \in Movies \ {ev.movie} : labels[m] = ev.lib[m]

(***************************************************************************)
(* C15: when reset_all_tags has completed, no movie carries (in any letter *)
(* case) an add_label or reject_label of any tagger; a reset of a library  *)
(* without managed labels changes nothing.                                 *)
(* Violated: line 289 compares the configured spelling with the lowercased *)
(* labels (see C4), so a label configured with a capital is never removed. *)
(***************************************************************************)
C15_ResetRemovesManagedLabels ==
    /\ ev.kind = "reset" => ManagedFree(labels)
    /\ (ev.kind \in {"reset_movie", "reset"} /\ ManagedFree(ev.lib)) =>
          labels = ev.lib

(***************************************************************************)
(* C16: in one pass no movie causes more than one classifier request, and  *)
(* a movie decided by the conflict rule, the already-decided rule, the     *)
(* Trakt match or the keyword rejection causes none.                       *)
(***************************************************************************)
C16_AtMostOneClassifierCall ==
    /\ \A m \in Movies : aiCalls[m] <= 1
    /\ ev.kind \in {"conflict", "skip", "trakt", "keyword"} =>
          /\ aiCalls[ev.movie] = 0
          /\ ev.ai = "none"
    /\ ev.kind = "ai" => aiCalls[ev.movie] = 1

\* The second movie of a pass is classified after the first one was
\* rejected by the keyword filter.
C16_Witness ==
    /\ ev.kind = "ai"
    /\ counters.processed = 2
    /\ counters.rejected >= 1
    /\ aiCalls = [m \in Movies |-> IF m = ev.movie THEN 1 ELSE 0]

(***************************************************************************)
(* C18: a step of a pass concerns a movie of the tagger's universe, leaves *)
(* every other movie's labels alone, and changes that movie's labels by at *)
(* most one label, which is the tagger's add_label or reject_label; the    *)
(* already-decided rule changes nothing.  reset_all_tags removes only      *)
(* managed labels.  No other step writes to the label store.               *)
(***************************************************************************)
OneOwnMutation(before, after, cfg) ==
    \/ after = before
    \/ \E l \in {cfg.add_label, cfg.reject_label} :
          l \notin before /\ after = before \cup {l}
    \/ \E l \in before :
          /\ lower(l) \in {lower(cfg.add_label), lower(cfg.reject_label)}
          /\ after = before \ {l}

C18_FrameOfPassAndReset ==
    /\ ev.kind \in ItemSteps =>
          /\ ev.movie \in Universe(ev.tagger)
          /\ OthersUnchanged
          /\ OneOwnMutation(Before, After, evConfig)
          /\ ev.kind = "skip" => After = Before
    /\ ev.kind = "reset_movie" =>
          /\ OthersUnchanged
          /\ After \subseteq Before
          /\ \A l \in Before : ~IsManaged(l) => l \in After
    /\ ev.kind \notin ItemSteps \cup {"reset_movie", "idle"} => labels = ev.lib

\* reset_all_tags has taken a managed label off a movie and left the
\* unmanaged one.
C18_Witness ==
    /\ ev.kind = "reset_movie"
    /\ Before = {sappy, unmanaged}
    /\ After = {unmanaged}

(***************************************************************************)
(* C19: when a pass has completed, every movie of the universe carries     *)
(* exactly one of the two labels; a pass over movies that all carry        *)
(* exactly one of them writes no label, asks the classifier nothing and    *)
(* counts tagged = 0, rejected = 0 and every movie as processed.           *)
(* Violated: with an add_label configured with a capital the label on the  *)
(* movie is not recognised (see C4) and the movie is classified again.     *)
(***************************************************************************)
FetchedDecided ==
    \A i \in DOMAIN movies : CarriesOne(movies[i].labels, config)

C19_PassIsAFixedPoint ==
    /\ ev.kind = "finished" => UniverseDecided(labels, ev.tagger)
    /\ (pc = "loop" /\ FetchedDecided) =>
          /\ \A i \in DOMAIN movies : labels[movies[i].id] = movies[i].labels
          /\ aiCalls = NoCalls
          /\ counters.tagged = 0
          /\ counters.rejected = 0
          /\ counters.processed = movIdx - 1
    /\ (pc \in {"loop", "crashed"} /\ ev.kind \in ItemSteps
          /\ UniverseDecided(ev.lib, ev.tagger)) =>
          /\ ev.kind = "skip"
          /\ labels = ev.lib

(***************************************************************************)
(* C17: a write of the tagger never completes the pair on a movie: when    *)
(* the tagger adds a label, the movie does not carry both labels           *)
(* afterwards unless it carried both before, whatever another user of the  *)
(* label store did during the pass.                                        *)
(* Violated under SpecConcurrent: the labels are read once, on line 187,   *)
(* and the label is written after the classifier call without a new read.  *)
(***************************************************************************)
C17_OwnWriteNeverCompletesThePair ==
    ev.kind \in {"trakt", "keyword", "ai"} =>
        (CarriesBoth(After, evConfig) => CarriesBoth(Before, evConfig))

====
